---- MODULE Spec2Model ----
(***************************************************************************)
(* Model of the compression-spring process timeline: the process           *)
(* generator and axis sampler (utils/processGenerator) and the process     *)
(* timeline store (stores/processStore.ts).                                *)
(*                                                                         *)
(* Numbers are exact rationals [n |-> numerator, d |-> denominator] in      *)
(* lowest terms with d > 0; JavaScript doubles are modelled by their exact *)
(* real values and Math.PI by the rational 22/7.  A division by zero gives *)
(* NaN ([n |-> 0, d |-> 0]).  The cosmetic strings of a phase (displayName, *)
(* description) and of an axis (name, unit) are left out of the records.   *)
(***************************************************************************)
EXTENDS Integers, Sequences, FiniteSets, TLC

----------------------------------------------------------------------------
(* Rational arithmetic *)

Abs(x) == IF x < 0 THEN -x ELSE x

GCD[a \in Nat, b \in Nat] == IF b = 0 THEN a ELSE GCD[b, a % b]

NaN == [n |-> 0, d |-> 0]

(* num / den in lowest terms; an operation on NaN gives NaN *)
Rat(num, den) ==
    IF den = 0 THEN NaN
    ELSE LET g == GCD[Abs(num), den]
         IN  [n |-> num \div g, d |-> den \div g]

R(i) == [n |-> i, d |-> 1]

RAdd(a, b) == Rat(a.n * b.d + b.n * a.d, a.d * b.d)
RSub(a, b) == Rat(a.n * b.d - b.n * a.d, a.d * b.d)
RMul(a, b) == Rat(a.n * b.n, a.d * b.d)
RDiv(a, b) ==
    IF b.n = 0 THEN NaN
    ELSE IF b.n > 0 THEN Rat(a.n * b.d, a.d * b.n)
    ELSE Rat(-(a.n * b.d), a.d * (-b.n))

RLt(a, b) == a.n * b.d < b.n * a.d
RLe(a, b) == a.d # 0 /\ b.d # 0 /\ a.n * b.d <= b.n * a.d
RGe(a, b) == RLe(b, a)
RGt(a, b) == RLt(b, a)

MathMax(a, b) == IF RLt(a, b) THEN b ELSE a

(* a minimum that always takes its second argument *)
MathMin_second(a, b) == b

MathMin(a, b) == IF RLt(b, a) THEN b ELSE a

(* rounding down where the code rounds up *)
MathCeil_floor(a) == R(a.n \div a.d)

MathCeil(a) == R(-((-a.n) \div a.d))

(* rounding up where the code rounds down *)
MathFloor_ceil(a) == R(-((-a.n) \div a.d))

MathFloor(a) == R(a.n \div a.d)

(* Math.round: the nearest integer, a half rounded up *)
MathRound(a) == MathFloor(RAdd(a, Rat(1, 2)))

MathPI == Rat(22, 7)

Zero == R(0)

----------------------------------------------------------------------------
(* utils/processGenerator: generateCompressionSpringProcess *)

timeIdle   == Rat(1, 10)
timePreCut == Rat(1, 10)
timeCut    == Rat(3, 10)
timeReset  == Rat(2, 10)
cutSafePos   == R(30)
cutActivePos == R(0)
addSafePos   == R(20)
addActivePos == R(5)

(* a phase record whose end is 0.1 s late *)
Phase_late(name, startTime, endTime) ==
    [name |-> name, startTime |-> startTime, endTime |-> RAdd(endTime, Rat(1, 10))]

Phase(name, startTime, endTime) ==
    [name |-> name, startTime |-> startTime, endTime |-> endTime]

Keyframe(time, position) == [time |-> time, position |-> position]

AxisProfile(axisId, keyframes) == [axisId |-> axisId, keyframes |-> keyframes]

(* a lookup that takes the start of the first phase whatever the name *)
FindPhaseStart_first(phases, name, i, dflt) == phases[1].startTime

(* phases.find(p => p.name === name)?.startTime ?? dflt *)
RECURSIVE FindPhaseStart(_, _, _, _)
FindPhaseStart(phases, name, i, dflt) ==
    IF i > Len(phases) THEN dflt
    ELSE IF phases[i].name = name THEN phases[i].startTime
    ELSE FindPhaseStart(phases, name, i + 1, dflt)

generateCompressionSpringProcess(params) ==
    LET wireDiameter == params.wireDiameter
        meanDiameter == params.meanDiameter
        activeCoils  == params.activeCoils
        totalCoils   == params.totalCoils
        pitch        == params.pitch
        feedSpeed    == params.feedSpeed
        \* basic geometry
        wirePerCoil      == RMul(MathPI, meanDiameter)
        closedCoils      == RDiv(RSub(totalCoils, activeCoils), R(2))
        firstClosedCoils == MathCeil(closedCoils)
        endClosedCoils   == MathFloor(closedCoils)
        \* wire length of each stage
        firstClosedLength == RMul(wirePerCoil, firstClosedCoils)
        bodyLength        == RMul(wirePerCoil, activeCoils)
        endClosedLength   == RMul(wirePerCoil, endClosedCoils)
        totalWireLength   == RAdd(RAdd(firstClosedLength, bodyLength), endClosedLength)
        \* stage durations
        timeFirstClosed == RDiv(firstClosedLength, feedSpeed)
        timeBody        == RDiv(bodyLength, feedSpeed)
        timeEndClosed   == RDiv(endClosedLength, feedSpeed)
        hasEnd          == RGt(endClosedCoils, Zero)
        \* accumulated time points
        t0      == Zero
        tIdle   == RAdd(t0, timeIdle)
        t1End   == RAdd(tIdle, timeFirstClosed)
        t2End   == RAdd(t1End, timeBody)
        t3End   == IF hasEnd THEN RAdd(t2End, timeEndClosed) ELSE t2End
        tPreEnd == RAdd(t3End, timePreCut)
        tCutEnd == RAdd(tPreEnd, timeCut)
        totalCycleTime == RAdd(tCutEnd, timeReset)
        phases ==
            << Phase("idle", t0, RAdd(t0, timeIdle)),
               Phase("first_closed_coil", tIdle, RAdd(tIdle, timeFirstClosed)),
               Phase("body_coils", t1End, RAdd(t1End, timeBody)) >>
            \o (IF hasEnd
                  THEN << Phase("end_closed_coil", t2End, RAdd(t2End, timeEndClosed)) >>
                  ELSE << >>)
            \o << Phase("pre_cut", t3End, RAdd(t3End, timePreCut)),
                  Phase("cutting", tPreEnd, RAdd(tPreEnd, timeCut)),
                  Phase("reset", tCutEnd, RAdd(tCutEnd, timeReset)) >>
        \* F axis (feed)
        feedKeyframes ==
            << Keyframe(Zero, Zero),
               Keyframe(timeIdle, Zero),
               Keyframe(t1End, firstClosedLength),
               Keyframe(t2End, RAdd(firstClosedLength, bodyLength)) >>
            \o (IF hasEnd
                  THEN << Keyframe(RAdd(t2End, timeEndClosed), totalWireLength) >>
                  ELSE << >>)
            \o << Keyframe(tCutEnd, totalWireLength),
                  Keyframe(totalCycleTime, totalWireLength) >>
        \* C axis (coiling)
        coilingTarget == RDiv(meanDiameter, R(2))
        coilingKeyframes ==
            << Keyframe(Zero, RAdd(coilingTarget, R(10))),
               Keyframe(timeIdle, coilingTarget),
               Keyframe(tCutEnd, coilingTarget),
               Keyframe(totalCycleTime, RAdd(coilingTarget, R(10))) >>
        \* P axis (pitch)
        bodyPitchStart == RMul(wireDiameter, firstClosedCoils)
        bodyPitchEnd   == RAdd(bodyPitchStart, RMul(pitch, activeCoils))
        pitchHead ==
            << Keyframe(Zero, Zero),
               Keyframe(timeIdle, Zero),
               Keyframe(t1End, RMul(wireDiameter, firstClosedCoils)),
               Keyframe(t2End, bodyPitchEnd) >>
            \o (IF hasEnd
                  THEN << Keyframe(RAdd(t2End, timeEndClosed),
                                   RAdd(bodyPitchEnd, RMul(wireDiameter, endClosedCoils))) >>
                  ELSE << >>)
        pitchKeyframes ==
            pitchHead
            \o << Keyframe(tCutEnd, pitchHead[Len(pitchHead)].position),
                  Keyframe(totalCycleTime, Zero) >>
        \* K axis (cut)
        cutApproachTime ==
            FindPhaseStart(phases, "pre_cut", 1, RSub(tCutEnd, Rat(4, 10)))
        cutKeyframes ==
            << Keyframe(Zero, cutSafePos),
               Keyframe(cutApproachTime, cutSafePos),
               Keyframe(RAdd(cutApproachTime, Rat(1, 10)), RMul(cutSafePos, Rat(1, 2))),
               Keyframe(RSub(tCutEnd, Rat(1, 10)), cutActivePos),
               Keyframe(tCutEnd, cutActivePos),
               Keyframe(totalCycleTime, cutSafePos) >>
        \* A axis (additional)
        addKeyframes ==
            << Keyframe(Zero, addSafePos),
               Keyframe(timeIdle, addActivePos),
               Keyframe(t1End, addActivePos),
               Keyframe(RAdd(t1End, Rat(1, 10)), addSafePos),
               Keyframe(RSub(t2End, Rat(1, 10)), addSafePos),
               Keyframe(t2End, IF hasEnd THEN addActivePos ELSE addSafePos),
               Keyframe(tCutEnd, addSafePos),
               Keyframe(totalCycleTime, addSafePos) >>
    IN  [ totalCycleTime |-> totalCycleTime,
          phases |-> phases,
          axes |-> << AxisProfile("feed", feedKeyframes),
                      AxisProfile("coiling", coilingKeyframes),
                      AxisProfile("pitch", pitchKeyframes),
                      AxisProfile("cut", cutKeyframes),
                      AxisProfile("additional", addKeyframes) >>,
          springGeometry |->
              [ wireDiameter |-> wireDiameter,
                meanDiameter |-> meanDiameter,
                pitch |-> pitch,
                totalCoils |-> totalCoils,
                activeCoils |-> activeCoils,
                wirePerCoil |-> wirePerCoil,
                totalWireLength |-> totalWireLength ] ]

----------------------------------------------------------------------------
(* utils/processGenerator: interpolateAxisPositions *)

(* a phase scan over closed intervals: t <= phase.endTime *)
RECURSIVE PhaseScan_closed(_, _, _)
PhaseScan_closed(phases, t, i) ==
    IF i > Len(phases) THEN "idle"
    ELSE IF RGe(t, phases[i].startTime) /\ RLe(t, phases[i].endTime)
         THEN phases[i].name
    ELSE PhaseScan_closed(phases, t, i + 1)

(* for (const phase of phases) if (t >= start && t < end) { ...; break } *)
RECURSIVE PhaseScan(_, _, _)
PhaseScan(phases, t, i) ==
    IF i > Len(phases) THEN "idle"
    ELSE IF RGe(t, phases[i].startTime) /\ RLt(t, phases[i].endTime)
         THEN phases[i].name
    ELSE PhaseScan(phases, t, i + 1)

(* a scan that blends over the first interval without testing it *)
IntervalScan_firstInterval(keyframes, t, i) ==
    LET k0 == keyframes[1]
        k1 == keyframes[2]
        ratio == RDiv(RSub(t, k0.time), RSub(k1.time, k0.time))
    IN  RAdd(k0.position, RMul(ratio, RSub(k1.position, k0.position)))

(* an interval scan that interpolates from k1 back to k0 *)
RECURSIVE IntervalScan_backwards(_, _, _)
IntervalScan_backwards(keyframes, t, i) ==
    IF i > Len(keyframes) - 1 THEN keyframes[Len(keyframes)].position
    ELSE LET k0 == keyframes[i]
             k1 == keyframes[i + 1]
         IN  IF RGe(t, k0.time) /\ RLt(t, k1.time)
             THEN LET ratio == RDiv(RSub(t, k0.time), RSub(k1.time, k0.time))
                  IN  RAdd(k1.position, RMul(ratio, RSub(k0.position, k1.position)))
             ELSE IntervalScan_backwards(keyframes, t, i + 1)

(* for (i = 0; i < length - 1; i++) if (t >= k0.time && t < k1.time) return ... *)
RECURSIVE IntervalScan(_, _, _)
IntervalScan(keyframes, t, i) ==
    IF i > Len(keyframes) - 1 THEN keyframes[Len(keyframes)].position
    ELSE LET k0 == keyframes[i]
             k1 == keyframes[i + 1]
         IN  IF RGe(t, k0.time) /\ RLt(t, k1.time)
             THEN LET ratio == RDiv(RSub(t, k0.time), RSub(k1.time, k0.time))
                  IN  RAdd(k0.position, RMul(ratio, RSub(k1.position, k0.position)))
             ELSE IntervalScan(keyframes, t, i + 1)

(* an interpolation that takes the first keyframe only strictly before its *)
(* time                                                                     *)
interpolate_strictFirst(keyframes, t) ==
    IF Len(keyframes) = 0 THEN Zero
    ELSE IF RLt(t, keyframes[1].time) THEN keyframes[1].position
    ELSE IF RGe(t, keyframes[Len(keyframes)].time)
         THEN keyframes[Len(keyframes)].position
    ELSE IntervalScan(keyframes, t, 1)

(* an interpolation that returns 0 from the last keyframe on *)
interpolate_zeroAtEnd(keyframes, t) ==
    IF Len(keyframes) = 0 THEN Zero
    ELSE IF RLe(t, keyframes[1].time) THEN keyframes[1].position
    ELSE IF RGe(t, keyframes[Len(keyframes)].time) THEN Zero
    ELSE IntervalScan(keyframes, t, 1)

interpolate(keyframes, t) ==
    IF Len(keyframes) = 0 THEN Zero
    ELSE IF RLe(t, keyframes[1].time) THEN keyframes[1].position
    ELSE IF RGe(t, keyframes[Len(keyframes)].time)
         THEN keyframes[Len(keyframes)].position
    ELSE IntervalScan(keyframes, t, 1)

(* an axis lookup that falls back on the first axis when the id is missing *)
RECURSIVE FindAxisPos_firstAxis(_, _, _, _)
FindAxisPos_firstAxis(axes, id, t, i) ==
    IF i > Len(axes) THEN interpolate(axes[1].keyframes, t)
    ELSE IF axes[i].axisId = id THEN interpolate(axes[i].keyframes, t)
    ELSE FindAxisPos_firstAxis(axes, id, t, i + 1)

(* axes.find(a => a.axisId === id); axis ? interpolate(axis.keyframes) : 0 *)
RECURSIVE FindAxisPos(_, _, _, _)
FindAxisPos(axes, id, t, i) ==
    IF i > Len(axes) THEN Zero
    ELSE IF axes[i].axisId = id THEN interpolate(axes[i].keyframes, t)
    ELSE FindAxisPos(axes, id, t, i + 1)

(* a lookup that reads the feed axis whatever the id *)
getAxisPos_feedOnly(axes, id, t) == FindAxisPos(axes, "feed", t, 1)

getAxisPos(axes, id, t) == FindAxisPos(axes, id, t, 1)

(* a query time that wraps around the cycle where the code clamps *)
ClampTime_wrap(process, time) ==
    IF RLt(time, Zero) THEN RAdd(time, process.totalCycleTime)
    ELSE IF RGt(time, process.totalCycleTime) THEN RSub(time, process.totalCycleTime)
    ELSE time

(* const t = Math.max(0, Math.min(time, process.totalCycleTime)) *)
ClampTime(process, time) == MathMax(Zero, MathMin(time, process.totalCycleTime))

(* the phase loop without the override at the end of the cycle *)
CurrentPhaseAt_noOverride(phases, t) == PhaseScan(phases, t, 1)

(* the phase loop, then: if (t >= phases[last].endTime) currentPhase = 'reset' *)
CurrentPhaseAt(phases, t) ==
    IF RGe(t, phases[Len(phases)].endTime) THEN "reset" ELSE PhaseScan(phases, t, 1)

interpolateAxisPositions(process, time) ==
    LET axes   == process.axes
        phases == process.phases
        t      == ClampTime(process, time)
        currentPhase == CurrentPhaseAt(phases, t)
        feedPos == getAxisPos(axes, "feed", t)
        currentCoils == RDiv(feedPos, process.springGeometry.wirePerCoil)
    IN  [ feed |-> feedPos,
          coiling |-> getAxisPos(axes, "coiling", t),
          pitch |-> getAxisPos(axes, "pitch", t),
          cut |-> getAxisPos(axes, "cut", t),
          additional |-> getAxisPos(axes, "additional", t),
          currentPhase |-> currentPhase,
          currentCoils |-> currentCoils ]

----------------------------------------------------------------------------
(* utils/jawKinematics: sampleAxisPosition *)

(* for (i = 0; i < length - 1; i++) if (t >= k0.time && t < k1.time) ...,   *)
(* with the guard on dt <= 0                                                *)
RECURSIVE JawIntervalScan(_, _, _)
JawIntervalScan(keyframes, t, i) ==
    IF i > Len(keyframes) - 1 THEN keyframes[Len(keyframes)].position
    ELSE LET k0 == keyframes[i]
             k1 == keyframes[i + 1]
             dt == RSub(k1.time, k0.time)
         IN  IF RGe(t, k0.time) /\ RLt(t, k1.time)
             THEN IF RLe(dt, Zero)
                    THEN k0.position
                    ELSE LET ratio == RDiv(RSub(t, k0.time), dt)
                         IN  RAdd(k0.position,
                                  RMul(ratio, RSub(k1.position, k0.position)))
             ELSE JawIntervalScan(keyframes, t, i + 1)

sampleAxisPosition(profile, t) ==
    LET keyframes == profile.keyframes
    IN  IF Len(keyframes) = 0 THEN Zero
        ELSE IF RLe(t, keyframes[1].time) THEN keyframes[1].position
        ELSE IF RGe(t, keyframes[Len(keyframes)].time)
             THEN keyframes[Len(keyframes)].position
        ELSE JawIntervalScan(keyframes, t, 1)

(* utils/jawKinematics: sampleJawAtTime *)

(* recipe.jawProfiles.find(p => p.axisId === jawId), then                   *)
(* sampleAxisPosition; 0 when no profile has the id                         *)
RECURSIVE FindJawPos(_, _, _, _)
FindJawPos(jawProfiles, jawId, t, i) ==
    IF i > Len(jawProfiles) THEN Zero
    ELSE IF jawProfiles[i].axisId = jawId THEN sampleAxisPosition(jawProfiles[i], t)
    ELSE FindJawPos(jawProfiles, jawId, t, i + 1)

sampleJawAtTime(recipe, jawId, t) ==
    IF recipe = [null |-> TRUE] THEN Zero
    ELSE FindJawPos(recipe.jawProfiles, jawId, t, 1)

----------------------------------------------------------------------------
(* stores/processStore.ts: useProcessStore *)

VARIABLES process, currentTime, isPlaying, playbackSpeed, axisPositions,
          currentRecipe, duration,
          lastOp, pre

storeVars == << process, currentTime, isPlaying, playbackSpeed, axisPositions,
                currentRecipe, duration >>

(* A caller of the generator and the sampler outside the store (the debug   *)
(* table, a test): the input it passes, the process it holds, the time it   *)
(* samples at and the sample it gets, with the sample before that one.      *)
VARIABLES genParams, genProcess, sampleTime, sampled, prevTime, prevSampled

genVars == << genParams, genProcess, sampleTime, sampled, prevTime, prevSampled >>

(* A caller of the keyframe interpolators: the keyframe sequence, the time  *)
(* it asks for, and what interpolate and sampleAxisPosition return.         *)
VARIABLES kfs, kfTime, kfOut, jawOut

kfVars == << kfs, kfTime, kfOut, jawOut >>

(* A caller of the other pure utilities: the call it made (function and     *)
(* arguments) and the value returned.                                       *)
VARIABLES call, result

utilVars == << call, result >>

(* store/springStore.ts: the params field, and the last updateParam call *)
VARIABLES springParams, springOp

springVars == << springParams, springOp >>

(* stores/simulationStore.ts: the fields, the last call and the fields as   *)
(* that call found them                                                     *)
VARIABLES playing, springProgress, speedFactor, simOp, simPre

simVars == << playing, springProgress, speedFactor, simOp, simPre >>

vars == << process, currentTime, isPlaying, playbackSpeed, axisPositions,
           currentRecipe, duration, lastOp, pre, genVars, kfVars,
           utilVars, springVars, simVars >>

Null == [null |-> TRUE]

(* The store's fields as one value: what a reader of the store can see. *)
Store ==
    [ process |-> process, currentTime |-> currentTime, isPlaying |-> isPlaying,
      playbackSpeed |-> playbackSpeed, axisPositions |-> axisPositions,
      currentRecipe |-> currentRecipe, duration |-> duration ]

(* lastOp names the store method called last and its argument; pre is the   *)
(* store as that call found it.                                             *)
Called(name, arg) ==
    /\ lastOp' = [name |-> name, arg |-> arg]
    /\ pre' = Store
    /\ UNCHANGED << genVars, kfVars, utilVars, springVars, simVars >>

(* config/recipes/sampleCompressionRecipe; a recipe's optional              *)
(* totalCycleTime is << >> when absent.                                     *)
SAMPLE_COMPRESSION_RECIPE ==
    [id |-> "sample-compression-001", totalCycleTime |-> << R(10) >>]

(* recipe?.totalCycleTime ?? 10.0 *)
RecipeDuration(recipe) ==
    IF recipe = Null THEN R(10)
    ELSE IF recipe.totalCycleTime = << >> THEN R(10)
    ELSE recipe.totalCycleTime[1]

(* no utility call has been made *)
UtilIdle ==
    /\ call = Null
    /\ result = Null

(* store/springStore.ts: defaultParams; conicalGeometry undefined is Null *)
defaultParams ==
    [ type |-> "compression",
      wireDiameter |-> R(2),
      meanDiameter |-> R(16),
      outerDiameter |-> R(18),
      innerDiameter |-> R(14),
      activeCoils |-> R(6),
      totalCoils |-> R(8),
      pitch |-> R(5),
      variablePitch |-> << >>,
      conicalGeometry |-> Null ]

SpringInit ==
    /\ springParams = defaultParams
    /\ springOp = Null

(* stores/simulationStore.ts: the initial fields *)
SimInit ==
    /\ playing = FALSE
    /\ springProgress = Zero
    /\ speedFactor = R(1)
    /\ simOp = Null
    /\ simPre = Null

(* no generator or sampler call outside the store has been made *)
GenIdle ==
    /\ genParams = Null
    /\ genProcess = Null
    /\ sampleTime = Null
    /\ sampled = Null
    /\ prevTime = Null
    /\ prevSampled = Null

KfIdle ==
    /\ kfs = << >>
    /\ kfTime = Null
    /\ kfOut = Null
    /\ jawOut = Null

StoreInit ==
    /\ process = Null
    /\ currentTime = Zero
    /\ isPlaying = FALSE
    /\ playbackSpeed = R(1)
    /\ axisPositions = Null
    /\ currentRecipe = SAMPLE_COMPRESSION_RECIPE
    /\ duration = RecipeDuration(SAMPLE_COMPRESSION_RECIPE)
    /\ lastOp = [name |-> "create", arg |-> Null]
    /\ pre = [ process |-> Null, currentTime |-> Zero, isPlaying |-> FALSE,
               playbackSpeed |-> R(1), axisPositions |-> Null,
               currentRecipe |-> SAMPLE_COMPRESSION_RECIPE,
               duration |-> RecipeDuration(SAMPLE_COMPRESSION_RECIPE) ]

Init == StoreInit /\ GenIdle /\ KfIdle /\ UtilIdle /\ SpringInit /\ SimInit

generateProcess_keepTime(params) ==
    /\ process' = generateCompressionSpringProcess(params)
    /\ axisPositions' = interpolateAxisPositions(process', Zero)
    /\ UNCHANGED << currentTime, isPlaying, playbackSpeed, currentRecipe, duration >>
    /\ Called("generateProcess", params)

generateProcess(params) ==
    /\ process' = generateCompressionSpringProcess(params)
    /\ axisPositions' = interpolateAxisPositions(process', Zero)
    /\ currentTime' = Zero
    /\ UNCHANGED << isPlaying, playbackSpeed, currentRecipe, duration >>
    /\ Called("generateProcess", params)

setTime_noClamp(time) ==
    /\ IF process = Null
         THEN UNCHANGED storeVars
         ELSE /\ currentTime' = time
              /\ axisPositions' = interpolateAxisPositions(process, time)
              /\ UNCHANGED << process, isPlaying, playbackSpeed, currentRecipe, duration >>
    /\ Called("setTime", time)

setTime(time) ==
    /\ IF process = Null
         THEN UNCHANGED storeVars
         ELSE LET clampedTime == MathMax(Zero, MathMin(time, process.totalCycleTime))
              IN  /\ currentTime' = clampedTime
                  /\ axisPositions' = interpolateAxisPositions(process, clampedTime)
                  /\ UNCHANGED << process, isPlaying, playbackSpeed, currentRecipe, duration >>
    /\ Called("setTime", time)

play ==
    /\ isPlaying' = TRUE
    /\ UNCHANGED << process, currentTime, playbackSpeed, axisPositions,
                    currentRecipe, duration >>
    /\ Called("play", Null)

pause_rewind ==
    /\ isPlaying' = FALSE
    /\ currentTime' = Zero
    /\ UNCHANGED << process, playbackSpeed, axisPositions, currentRecipe, duration >>
    /\ Called("pause", Null)

pause ==
    /\ isPlaying' = FALSE
    /\ UNCHANGED << process, currentTime, playbackSpeed, axisPositions,
                    currentRecipe, duration >>
    /\ Called("pause", Null)

reset ==
    /\ IF process = Null
         THEN UNCHANGED storeVars
         ELSE /\ currentTime' = Zero
              /\ axisPositions' = interpolateAxisPositions(process, Zero)
              /\ isPlaying' = FALSE
              /\ UNCHANGED << process, playbackSpeed, currentRecipe, duration >>
    /\ Called("reset", Null)

setPlaybackSpeed(speed) ==
    /\ playbackSpeed' = speed
    /\ UNCHANGED << process, currentTime, isPlaying, axisPositions,
                    currentRecipe, duration >>
    /\ Called("setPlaybackSpeed", speed)

(* tick: newTime before the wrap, and maxTime = process?.totalCycleTime ??   *)
(* duration                                                                 *)
TickNewTime(deltaTime) == RAdd(currentTime, RMul(deltaTime, playbackSpeed))

TickMaxTime == IF process # Null THEN process.totalCycleTime ELSE duration

TickSet(newTime) ==
    /\ currentTime' = newTime
    /\ axisPositions' = IF process # Null
                          THEN interpolateAxisPositions(process, newTime)
                          ELSE Null
    /\ UNCHANGED << process, isPlaying, playbackSpeed, currentRecipe, duration >>

tick_carry(deltaTime) ==
    /\ IF ~isPlaying
         THEN UNCHANGED storeVars
         ELSE TickSet(IF RGe(TickNewTime(deltaTime), TickMaxTime)
                        THEN RSub(TickNewTime(deltaTime), TickMaxTime)
                        ELSE TickNewTime(deltaTime))
    /\ Called("tick", deltaTime)

tick_hold(deltaTime) ==
    /\ IF ~isPlaying
         THEN UNCHANGED storeVars
         ELSE TickSet(IF RGe(TickNewTime(deltaTime), TickMaxTime)
                        THEN TickMaxTime
                        ELSE TickNewTime(deltaTime))
    /\ Called("tick", deltaTime)

tick_noGuard(deltaTime) ==
    /\ TickSet(IF RGe(TickNewTime(deltaTime), TickMaxTime)
                 THEN Zero
                 ELSE TickNewTime(deltaTime))
    /\ Called("tick", deltaTime)

tick_ignoreDuration(deltaTime) ==
    /\ IF ~isPlaying
         THEN UNCHANGED storeVars
         ELSE TickSet(IF RGe(TickNewTime(deltaTime),
                             IF process # Null THEN process.totalCycleTime ELSE R(10))
                        THEN Zero
                        ELSE TickNewTime(deltaTime))
    /\ Called("tick", deltaTime)

tick_recipeDuration(deltaTime) ==
    /\ IF ~isPlaying
         THEN UNCHANGED storeVars
         ELSE TickSet(IF RGe(TickNewTime(deltaTime), duration)
                        THEN Zero
                        ELSE TickNewTime(deltaTime))
    /\ Called("tick", deltaTime)

tick(deltaTime) ==
    /\ IF ~isPlaying
         THEN UNCHANGED storeVars
         ELSE TickSet(IF RGe(TickNewTime(deltaTime), TickMaxTime)
                        THEN Zero
                        ELSE TickNewTime(deltaTime))
    /\ Called("tick", deltaTime)

setCurrentRecipe_dropProcess(recipe) ==
    /\ currentRecipe' = recipe
    /\ duration' = RecipeDuration(recipe)
    /\ currentTime' = Zero
    /\ process' = Null
    /\ axisPositions' = Null
    /\ UNCHANGED << isPlaying, playbackSpeed >>
    /\ Called("setCurrentRecipe", recipe)

setCurrentRecipe(recipe) ==
    /\ currentRecipe' = recipe
    /\ duration' = RecipeDuration(recipe)
    /\ currentTime' = Zero
    /\ UNCHANGED << process, isPlaying, playbackSpeed, axisPositions >>
    /\ Called("setCurrentRecipe", recipe)

----------------------------------------------------------------------------
(* The calls the store receives *)

(* how far below 0 a run of negative ticks may take currentTime *)
MaxRewind == 2

Params(wireDiameter, meanDiameter, activeCoils, totalCoils, pitch, feedSpeed) ==
    [ wireDiameter |-> R(wireDiameter), meanDiameter |-> R(meanDiameter),
      activeCoils |-> R(activeCoils), totalCoils |-> R(totalCoils),
      pitch |-> R(pitch), endType |-> "closed", feedSpeed |-> R(feedSpeed) ]

(* one closed coil at each end; no closed coil (first_closed_coil of zero   *)
(* duration, body of 0.2 s); one closed coil at the first end only          *)
ProcessInputs ==
    { Params(2, 7, 2, 4, 4, 22),
      Params(2, 7, 2, 2, 4, 220),
      Params(2, 7, 1, 2, 4, 220) }

TimeInputs ==
    { R(-1), Rat(3, 2), R(6) }
    \cup (IF process # Null THEN {process.totalCycleTime} ELSE {})

SpeedInputs == { R(1), R(2) }

DeltaInputs ==
    { R(-2), R(2) }
    \cup (IF process # Null THEN {RAdd(process.totalCycleTime, R(1))} ELSE {})

RecipeInputs ==
    { Null, [id |-> "short", totalCycleTime |-> << R(3) >>] }

GenerateProcess == \E params \in ProcessInputs : generateProcess(params)
SetTime == \E time \in TimeInputs : setTime(time)
Play == play
Pause == pause
Reset == reset
SetPlaybackSpeed == \E speed \in SpeedInputs : setPlaybackSpeed(speed)
Tick ==
    \E deltaTime \in DeltaInputs :
        /\ RGe(TickNewTime(deltaTime), R(-MaxRewind))
        /\ tick(deltaTime)
SetCurrentRecipe == \E recipe \in RecipeInputs : setCurrentRecipe(recipe)

Next ==
    \/ GenerateProcess
    \/ SetTime
    \/ Play
    \/ Pause
    \/ Reset
    \/ SetPlaybackSpeed
    \/ Tick
    \/ SetCurrentRecipe

Spec == Init /\ [][Next]_vars

----------------------------------------------------------------------------
(* Looping playback: a process is generated once, play() is called, and the *)
(* animation scheduler calls tick on every frame with a positive step.      *)

LoopDeltaInputs ==
    { Rat(1, 2), R(2) }
    \cup (IF process # Null THEN {RAdd(process.totalCycleTime, R(1))} ELSE {})

LoopGenerate == process = Null /\ GenerateProcess
LoopPlay == ~isPlaying /\ play
LoopTick == \E deltaTime \in LoopDeltaInputs : tick(deltaTime)
LoopSpeed == SetPlaybackSpeed

LoopNext ==
    \/ LoopGenerate
    \/ LoopPlay
    \/ LoopTick
    \/ LoopSpeed

(* The scheduler calls tick on every frame, and a tick step is possible in  *)
(* every state, so weak fairness of LoopTick is the same as LoopTick steps  *)
(* happening again and again.                                               *)
LoopSpec == Init /\ [][LoopNext]_vars /\ []<><<LoopTick>>_vars

----------------------------------------------------------------------------
(* Forward playback: every operation of the store, with the frame steps of  *)
(* the animation loop, which are elapsed times and so never negative        *)
(* (SpeedInputs holds positive speeds only).                                *)

ForwardDeltaInputs ==
    { Zero, Rat(1, 2), R(2) }
    \cup (IF process # Null THEN {RAdd(process.totalCycleTime, R(1))} ELSE {})

ForwardTick == \E deltaTime \in ForwardDeltaInputs : tick(deltaTime)

ForwardNext ==
    \/ GenerateProcess
    \/ SetTime
    \/ Play
    \/ Pause
    \/ Reset
    \/ SetPlaybackSpeed
    \/ ForwardTick
    \/ SetCurrentRecipe

ForwardSpec == Init /\ [][ForwardNext]_vars

----------------------------------------------------------------------------
(* Properties of the process timeline store *)

Loaded == process # Null

(* currentTime + deltaTime * playbackSpeed as the last tick call found them *)
TickSum == RAdd(pre.currentTime, RMul(lastOp.arg, pre.playbackSpeed))

(* C1: whenever a process is loaded, axisPositions is the sample of the     *)
(* process at currentTime: no operation publishes a currentTime without the *)
(* matching axis positions.                                                 *)
C1_TimeAndPositionsInSync ==
    Loaded => axisPositions = interpolateAxisPositions(process, currentTime)

(* C2: tick while playing with a process loaded sets currentTime to         *)
(* currentTime + deltaTime*playbackSpeed when that is below totalCycleTime, *)
(* and to exactly 0 otherwise; axisPositions is the sample at the new time. *)
C2_TickAdvancesOrWraps ==
    (lastOp.name = "tick" /\ pre.isPlaying /\ pre.process # Null) =>
        IF RLt(TickSum, pre.process.totalCycleTime)
          THEN /\ currentTime = TickSum
               /\ axisPositions = interpolateAxisPositions(pre.process, TickSum)
          ELSE /\ currentTime = Zero
               /\ axisPositions = interpolateAxisPositions(pre.process, Zero)

(* a single step of totalCycleTime + 1 from currentTime = 0 has wrapped to 0 *)
C2_Witness ==
    /\ lastOp.name = "tick" /\ pre.isPlaying /\ pre.process # Null
    /\ pre.currentTime = Zero
    /\ lastOp.arg = RAdd(pre.process.totalCycleTime, R(1))
    /\ currentTime = Zero

C4_PausedTickIsNoOp ==
    (lastOp.name = "tick" /\ ~pre.isPlaying) => Store = pre

C4_Witness ==
    /\ lastOp.name = "tick" /\ ~pre.isPlaying
    /\ Loaded
    /\ RGt(currentTime, Zero)
    /\ RLt(RAdd(currentTime, RMul(lastOp.arg, playbackSpeed)), process.totalCycleTime)

(* C5: reset in any store state, process loaded or not, leaves currentTime  *)
(* = 0 and isPlaying = false, with axisPositions the sample at 0 when a     *)
(* process is loaded.                                                       *)
C5_ResetAlwaysRewindsAndPauses ==
    lastOp.name = "reset" =>
        /\ currentTime = Zero
        /\ isPlaying = FALSE
        /\ Loaded => axisPositions = interpolateAxisPositions(process, Zero)

(* C6: generateProcess(input) stores generateCompressionSpringProcess(input), *)
(* currentTime 0 and the sample of the new process at 0, in one update.     *)
C6_GenerateReplacesAndRewinds ==
    lastOp.name = "generateProcess" =>
        /\ process = generateCompressionSpringProcess(lastOp.arg)
        /\ currentTime = Zero
        /\ axisPositions =
               interpolateAxisPositions(generateCompressionSpringProcess(lastOp.arg), Zero)

C6_Witness ==
    /\ lastOp.name = "generateProcess"
    /\ pre.process # Null
    /\ pre.process # process
    /\ RGt(pre.currentTime, Zero)
    /\ pre.axisPositions # axisPositions

(* C7: setTime(t) with a process loaded sets currentTime to                 *)
(* min(max(t, 0), totalCycleTime) and axisPositions to the sample there,    *)
(* leaving process, isPlaying and playbackSpeed alone; with no process it   *)
(* changes nothing.                                                         *)
C7_SetTimeClamps ==
    lastOp.name = "setTime" =>
        IF pre.process = Null
          THEN Store = pre
          ELSE /\ currentTime =
                      MathMin(MathMax(lastOp.arg, Zero), pre.process.totalCycleTime)
               /\ axisPositions = interpolateAxisPositions(pre.process, currentTime)
               /\ process = pre.process
               /\ isPlaying = pre.isPlaying
               /\ playbackSpeed = pre.playbackSpeed

C7_Witness ==
    /\ lastOp.name = "setTime" /\ pre.process # Null
    /\ RGt(lastOp.arg, pre.process.totalCycleTime)
    /\ currentTime = pre.process.totalCycleTime
    /\ pre.currentTime # currentTime

(* C8: play and pause set isPlaying to true and false and change nothing    *)
(* else.                                                                    *)
C8_PlayPauseOnlyToggle ==
    lastOp.name \in {"play", "pause"} =>
        /\ isPlaying = (lastOp.name = "play")
        /\ currentTime = pre.currentTime
        /\ axisPositions = pre.axisPositions
        /\ process = pre.process
        /\ playbackSpeed = pre.playbackSpeed

C8_Witness ==
    /\ lastOp.name = "pause" /\ pre.isPlaying
    /\ Loaded
    /\ RGt(currentTime, Zero)

(* C9: with a process loaded and isPlaying true, under repeated ticks with  *)
(* positive steps, no tick leaves currentTime at or past totalCycleTime or  *)
(* isPlaying false, and a tick brings currentTime back to 0 (phase idle)    *)
(* again and again.                                                         *)
C9_PlaybackLoops ==
    /\ []((lastOp.name = "tick" /\ pre.isPlaying /\ Loaded) =>
             (isPlaying /\ RLt(currentTime, process.totalCycleTime)))
    /\ []((Loaded /\ isPlaying) =>
             <>(/\ Loaded
                /\ lastOp.name = "tick"
                /\ currentTime = Zero
                /\ axisPositions.currentPhase = "idle"))

C9_Witness ==
    /\ lastOp.name = "tick" /\ pre.isPlaying /\ pre.process # Null
    /\ RGt(pre.currentTime, Zero)
    /\ RLt(pre.currentTime, pre.process.totalCycleTime)
    /\ currentTime = Zero
    /\ axisPositions.currentPhase = "idle"

(* C10: every operation but generateProcess leaves the process field as it  *)
(* was, and generateProcess stores a fresh process made from its input      *)
(* alone.                                                                   *)
C10_ProcessIsSnapshot ==
    /\ lastOp.name # "generateProcess" => process = pre.process
    /\ lastOp.name = "generateProcess" =>
           process = generateCompressionSpringProcess(lastOp.arg)

C10_Witness ==
    /\ lastOp.name = "setCurrentRecipe"
    /\ Loaded
    /\ RGt(pre.currentTime, Zero)
    /\ process = pre.process

(* C29: with positive playback speeds and frame steps that are never        *)
(* negative, whenever a process is loaded currentTime lies between 0 and    *)
(* the totalCycleTime of the process now stored, also right after a longer  *)
(* process was replaced by a shorter one.                                   *)
C29_TimeWithinCycle ==
    Loaded =>
        /\ RGe(currentTime, Zero)
        /\ RLe(currentTime, process.totalCycleTime)

(* a process replaced by a shorter one while currentTime was past the end   *)
(* of the new one                                                           *)
C29_Witness ==
    /\ lastOp.name = "generateProcess"
    /\ pre.process # Null
    /\ RGt(pre.process.totalCycleTime, process.totalCycleTime)
    /\ RGt(pre.currentTime, process.totalCycleTime)
    /\ currentTime = Zero

----------------------------------------------------------------------------
(* The generator and the sampler called directly: a process is generated    *)
(* from one parameter set and then sampled at any number of times.          *)

(* the largest coil count of a generated spring *)
MaxCoils == 4

(* feed speeds: one coil (22 mm of wire) takes 1 s or 0.1 s *)
FeedSpeedInputs == { 22, 220 }

(* positive parameters with activeCoils <= totalCoils: every integer pair   *)
(* of coil counts, and two springs with a fractional number of active coils *)
GenInputs ==
    { Params(2, 7, a, n, 4, f) :
        a \in 1..MaxCoils, n \in 1..MaxCoils, f \in FeedSpeedInputs }
    \cup { [Params(2, 7, 1, 3, 4, 22) EXCEPT !.activeCoils = Rat(3, 2)],
           [Params(2, 7, 1, 4, 4, 220) EXCEPT !.activeCoils = Rat(1, 2)] }

ValidParams(params) ==
    /\ RGt(params.wireDiameter, Zero)
    /\ RGt(params.meanDiameter, Zero)
    /\ RGt(params.activeCoils, Zero)
    /\ RGt(params.totalCoils, Zero)
    /\ RGt(params.pitch, Zero)
    /\ RGt(params.feedSpeed, Zero)
    /\ RLe(params.activeCoils, params.totalCoils)

AxisOf(proc, id) == CHOOSE a \in 1..Len(proc.axes) : proc.axes[a].axisId = id

KeyframesOf(proc, id) == proc.axes[AxisOf(proc, id)].keyframes

(* the times a caller samples at: before 0 and after the end of the cycle,  *)
(* every phase boundary, the middle of every phase, every keyframe time     *)
SampleInputs ==
    LET phases == genProcess.phases
        axes   == genProcess.axes
    IN  { R(-1), RAdd(genProcess.totalCycleTime, R(1)) }
        \cup { phases[i].startTime : i \in 1..Len(phases) }
        \cup { phases[i].endTime : i \in 1..Len(phases) }
        \cup { RDiv(RAdd(phases[i].startTime, phases[i].endTime), R(2)) :
                 i \in 1..Len(phases) }
        \cup UNION { { axes[a].keyframes[k].time : k \in 1..Len(axes[a].keyframes) } :
                       a \in 1..Len(axes) }

GenInit ==
    /\ StoreInit
    /\ KfIdle
    /\ UtilIdle
    /\ SpringInit
    /\ SimInit
    /\ genParams \in { params \in GenInputs : ValidParams(params) }
    /\ genProcess = Null
    /\ sampleTime = Null
    /\ sampled = Null
    /\ prevTime = Null
    /\ prevSampled = Null

Generate ==
    /\ genProcess = Null
    /\ genProcess' = generateCompressionSpringProcess(genParams)
    /\ UNCHANGED << genParams, sampleTime, sampled, prevTime, prevSampled >>
    /\ UNCHANGED << storeVars, lastOp, pre, kfVars, utilVars, springVars, simVars >>

Sample ==
    /\ genProcess # Null
    /\ \E time \in SampleInputs :
          /\ sampleTime' = time
          /\ sampled' = interpolateAxisPositions(genProcess, time)
    /\ prevTime' = sampleTime
    /\ prevSampled' = sampled
    /\ UNCHANGED << genParams, genProcess >>
    /\ UNCHANGED << storeVars, lastOp, pre, kfVars, utilVars, springVars, simVars >>

GenNext ==
    \/ Generate
    \/ Sample

GenSpec == GenInit /\ [][GenNext]_vars

----------------------------------------------------------------------------
(* Properties of the generated process *)

Generated == genProcess # Null

Sampled == genProcess # Null /\ sampleTime # Null

PhaseNames == [i \in 1..Len(genProcess.phases) |-> genProcess.phases[i].name]

(* (totalCoils - activeCoils) / 2 of the input, rounded down and up by      *)
(* integer division                                                         *)
ClosedCoils == RDiv(RSub(genParams.totalCoils, genParams.activeCoils), R(2))

ClosedDown == ClosedCoils.n \div ClosedCoils.d

ClosedUp == -((-ClosedCoils.n) \div ClosedCoils.d)

IntegerCoils == genParams.activeCoils.d = 1 /\ genParams.totalCoils.d = 1

(* C11: the phases of a generated process are contiguous: the first starts  *)
(* at 0, each ends where the next starts, none ends before it starts, and   *)
(* the last ends at totalCycleTime.                                         *)
C11_PhasesContiguous ==
    Generated =>
        LET phases == genProcess.phases
        IN  /\ phases[1].startTime = Zero
            /\ \A i \in 1..(Len(phases) - 1) :
                  phases[i].endTime = phases[i + 1].startTime
            /\ \A i \in 1..Len(phases) :
                  RLe(phases[i].startTime, phases[i].endTime)
            /\ phases[Len(phases)].endTime = genProcess.totalCycleTime

(* a generated process with all seven phases, closed coils at both ends *)
C11_Witness ==
    /\ Generated
    /\ Len(genProcess.phases) = 7
    /\ RGt(genProcess.phases[4].endTime, genProcess.phases[4].startTime)

(* C12: the phase list is idle, first_closed_coil, body_coils, then         *)
(* end_closed_coil exactly when floor((totalCoils - activeCoils)/2) > 0,    *)
(* then pre_cut, cutting, reset; 'done' is never a phase; activeCoils =     *)
(* totalCoils gives 6 phases and a positive end-closed count gives 7.       *)
C12_FixedPhaseSequence ==
    Generated =>
        /\ PhaseNames =
              << "idle", "first_closed_coil", "body_coils" >>
              \o (IF ClosedDown > 0 THEN << "end_closed_coil" >> ELSE << >>)
              \o << "pre_cut", "cutting", "reset" >>
        /\ \A i \in 1..Len(PhaseNames) : PhaseNames[i] # "done"
        /\ (genParams.activeCoils = genParams.totalCoils => Len(PhaseNames) = 6)
        /\ (ClosedDown > 0 => Len(PhaseNames) = 7)

(* no closed coils: six phases, first_closed_coil present with zero duration *)
C12_Witness ==
    /\ Generated
    /\ genParams.activeCoils = genParams.totalCoils
    /\ Len(genProcess.phases) = 6
    /\ genProcess.phases[2].name = "first_closed_coil"
    /\ genProcess.phases[2].startTime = genProcess.phases[2].endTime

(* C13: a sample at t in [0, totalCycleTime) reports the one phase with     *)
(* startTime <= t < endTime, so a boundary belongs to the phase that starts *)
(* there and a zero-duration phase is never reported; a sample at           *)
(* totalCycleTime reports 'reset'.                                          *)
C13_PhaseAtBoundary ==
    (Sampled /\ RGe(sampleTime, Zero) /\ RLe(sampleTime, genProcess.totalCycleTime)) =>
        LET phases == genProcess.phases
            Holds(i) == /\ RLe(phases[i].startTime, sampleTime)
                        /\ RLt(sampleTime, phases[i].endTime)
        IN  IF sampleTime = genProcess.totalCycleTime
            THEN sampled.currentPhase = "reset"
            ELSE \E i \in 1..Len(phases) :
                    /\ Holds(i)
                    /\ sampled.currentPhase = phases[i].name
                    /\ \A j \in 1..Len(phases) : Holds(j) => j = i

(* a sample at 0.1 s, where idle ends and a zero-duration first_closed_coil *)
(* starts and ends: body_coils is reported                                  *)
C13_Witness ==
    /\ Sampled
    /\ genProcess.phases[2].startTime = genProcess.phases[2].endTime
    /\ sampleTime = genProcess.phases[2].startTime
    /\ sampled.currentPhase = "body_coils"

(* C14: the first end gets ceil((totalCoils - activeCoils)/2) closed coils  *)
(* and the other end floor of it (seen in the feed keyframes, wirePerCoil   *)
(* per coil); for integer coil counts the two sum to totalCoils -           *)
(* activeCoils, differ by 0 or 1, and totalWireLength is wirePerCoil *      *)
(* totalCoils.                                                              *)
C14_ClosedCoilSplit ==
    Generated =>
        LET geometry == genProcess.springGeometry
            wirePerCoil == geometry.wirePerCoil
            feed == KeyframesOf(genProcess, "feed")
            firstLength == feed[3].position
            bodyLength  == RSub(feed[4].position, feed[3].position)
            endLength   == RSub(feed[Len(feed)].position, feed[4].position)
        IN  /\ firstLength = RMul(wirePerCoil, R(ClosedUp))
            /\ bodyLength = RMul(wirePerCoil, genParams.activeCoils)
            /\ endLength = RMul(wirePerCoil, R(ClosedDown))
            /\ IntegerCoils =>
                  /\ R(ClosedUp + ClosedDown) =
                        RSub(genParams.totalCoils, genParams.activeCoils)
                  /\ ClosedUp - ClosedDown \in {0, 1}
                  /\ geometry.totalWireLength = RMul(wirePerCoil, genParams.totalCoils)

(* an odd number of closed coils: two at the first end, one at the other *)
C14_Witness ==
    /\ Generated
    /\ IntegerCoils
    /\ RSub(genParams.totalCoils, genParams.activeCoils) = R(3)
    /\ KeyframesOf(genProcess, "feed")[3].position =
          RMul(genProcess.springGeometry.wirePerCoil, R(2))

(* C15: in every generated process each of the five axis profiles has       *)
(* keyframe times that never decrease along the sequence.                   *)
C15_KeyframeTimesNonDecreasing ==
    Generated =>
        \A a \in 1..Len(genProcess.axes) :
            LET keyframes == genProcess.axes[a].keyframes
            IN  \A k \in 1..(Len(keyframes) - 1) :
                    RLe(keyframes[k].time, keyframes[k + 1].time)

InCycle(time) ==
    /\ time # Null
    /\ RGe(time, Zero)
    /\ RLe(time, genProcess.totalCycleTime)

(* C16: the feed keyframe positions never decrease, from 0 to               *)
(* totalWireLength, and of two samples within the cycle the later one never *)
(* has the smaller feed position.                                           *)
C16_FeedMonotone ==
    /\ Generated =>
          LET feed == KeyframesOf(genProcess, "feed")
          IN  /\ feed[1].position = Zero
              /\ feed[Len(feed)].position = genProcess.springGeometry.totalWireLength
              /\ \A k \in 1..(Len(feed) - 1) :
                    RLe(feed[k].position, feed[k + 1].position)
    /\ (Sampled /\ InCycle(prevTime) /\ InCycle(sampleTime) /\ RLe(prevTime, sampleTime)) =>
          RLe(prevSampled.feed, sampled.feed)

(* two samples inside one feeding phase, the later with more wire fed *)
C16_Witness ==
    /\ Sampled
    /\ InCycle(prevTime)
    /\ InCycle(sampleTime)
    /\ RLt(prevTime, sampleTime)
    /\ RLt(Zero, prevSampled.feed)
    /\ RLt(prevSampled.feed, sampled.feed)
    /\ RLt(sampled.feed, genProcess.springGeometry.totalWireLength)

(* C17: a sample within the cycle has currentCoils = feed / wirePerCoil,    *)
(* never negative, and the sample at totalCycleTime has feed =              *)
(* totalWireLength.                                                         *)
C17_CoilsNonNegative ==
    (Sampled /\ InCycle(sampleTime)) =>
        /\ sampled.currentCoils =
              RDiv(sampled.feed, genProcess.springGeometry.wirePerCoil)
        /\ RGe(sampled.currentCoils, Zero)
        /\ (sampleTime = genProcess.totalCycleTime =>
              sampled.feed = genProcess.springGeometry.totalWireLength)

(* the sample at the end of the cycle: all the wire fed, all coils counted *)
C17_Witness ==
    /\ Sampled
    /\ sampleTime = genProcess.totalCycleTime
    /\ sampled.feed = genProcess.springGeometry.totalWireLength
    /\ RGt(sampled.currentCoils, Zero)

(* C18: the sample at 0 and the sample at totalCycleTime have the same      *)
(* coiling, pitch, cut and additional positions; the first is in phase idle *)
(* and the second in phase reset; the second has the last feed keyframe's   *)
(* position, totalWireLength, and totalWireLength / wirePerCoil coils.      *)
C18_CycleEndsMeet ==
    (Sampled /\ prevTime = Zero /\ sampleTime = genProcess.totalCycleTime) =>
        LET geometry == genProcess.springGeometry
            feed == KeyframesOf(genProcess, "feed")
        IN  /\ sampled.coiling = prevSampled.coiling
            /\ sampled.pitch = prevSampled.pitch
            /\ sampled.cut = prevSampled.cut
            /\ sampled.additional = prevSampled.additional
            /\ prevSampled.currentPhase = "idle"
            /\ sampled.currentPhase = "reset"
            /\ sampled.feed = feed[Len(feed)].position
            /\ sampled.feed = geometry.totalWireLength
            /\ sampled.currentCoils = RDiv(geometry.totalWireLength, geometry.wirePerCoil)

(* a sample at 0 followed by a sample at the end of the cycle *)
C18_Witness ==
    /\ Sampled
    /\ prevTime = Zero
    /\ sampleTime = genProcess.totalCycleTime
    /\ prevSampled.feed = Zero
    /\ RGt(sampled.feed, Zero)

(* C20: a sample at a time below 0 is the sample at 0 and a sample at a     *)
(* time above totalCycleTime is the sample at totalCycleTime, in every      *)
(* field.                                                                   *)
C20_QueryTimeClamped ==
    Sampled =>
        /\ (RLt(sampleTime, Zero) =>
              sampled = interpolateAxisPositions(genProcess, Zero))
        /\ (RGt(sampleTime, genProcess.totalCycleTime) =>
              sampled = interpolateAxisPositions(genProcess, genProcess.totalCycleTime))

(* a sample one second after the end of the cycle *)
C20_Witness ==
    /\ Sampled
    /\ RGt(sampleTime, genProcess.totalCycleTime)
    /\ sampled.currentPhase = "reset"
    /\ sampled.feed = genProcess.springGeometry.totalWireLength

PhaseStart(name) ==
    genProcess.phases[CHOOSE i \in 1..Len(genProcess.phases) :
                          genProcess.phases[i].name = name].startTime

PhaseEnd(name) ==
    genProcess.phases[CHOOSE i \in 1..Len(genProcess.phases) :
                          genProcess.phases[i].name = name].endTime

(* C26: within the cycle the cut axis is at 30 up to the start of pre_cut   *)
(* and the feed is at totalWireLength from the start of pre_cut on, so a    *)
(* sample with the cutter below 30 has all the wire fed.                    *)
C26_CutterAndFeedNeverTogether ==
    (Sampled /\ InCycle(sampleTime)) =>
        /\ RLe(sampleTime, PhaseStart("pre_cut")) => sampled.cut = cutSafePos
        /\ RGe(sampleTime, PhaseStart("pre_cut")) =>
              sampled.feed = genProcess.springGeometry.totalWireLength
        /\ RLt(sampled.cut, cutSafePos) =>
              sampled.feed = genProcess.springGeometry.totalWireLength

(* a sample in the middle of pre_cut: the cutter half way, all wire fed *)
C26_Witness ==
    /\ Sampled
    /\ sampled.currentPhase = "pre_cut"
    /\ RLt(sampled.cut, cutSafePos)
    /\ RGt(sampled.cut, cutActivePos)
    /\ sampled.feed = genProcess.springGeometry.totalWireLength

(* C27: the pitch axis is 0 throughout idle, wireDiameter *                 *)
(* firstClosedCoils at the end of first_closed_coil, pitch * activeCoils    *)
(* more at the end of body_coils and, with end-closed coils, wireDiameter * *)
(* endClosedCoils more at the end of end_closed_coil; it never decreases up *)
(* to then, keeps that value through pre_cut and cutting and is 0 at        *)
(* totalCycleTime.                                                          *)
C27_PitchProfile ==
    (Sampled /\ InCycle(sampleTime)) =>
        LET afterFirst == RMul(genParams.wireDiameter, R(ClosedUp))
            afterBody  == RAdd(afterFirst, RMul(genParams.pitch, genParams.activeCoils))
            afterEnd   == RAdd(afterBody, RMul(genParams.wireDiameter, R(ClosedDown)))
        IN  /\ RLe(sampleTime, PhaseEnd("idle")) => sampled.pitch = Zero
            /\ sampleTime = PhaseEnd("first_closed_coil") => sampled.pitch = afterFirst
            /\ sampleTime = PhaseEnd("body_coils") => sampled.pitch = afterBody
            /\ (ClosedDown > 0 /\ sampleTime = PhaseEnd("end_closed_coil")) =>
                  sampled.pitch = afterEnd
            /\ (RGe(sampleTime, PhaseStart("pre_cut"))
                  /\ RLe(sampleTime, PhaseEnd("cutting"))) => sampled.pitch = afterEnd
            /\ sampleTime = genProcess.totalCycleTime => sampled.pitch = Zero
            /\ (InCycle(prevTime) /\ RLe(prevTime, sampleTime)
                  /\ RLe(sampleTime, PhaseStart("pre_cut"))) =>
                  RLe(prevSampled.pitch, sampled.pitch)

(* a sample in the middle of body_coils after one in first_closed_coil, the *)
(* pitch tool further out; the spring has closed coils at both ends         *)
C27_Witness ==
    /\ Sampled
    /\ InCycle(prevTime)
    /\ ClosedDown > 0
    /\ prevSampled.currentPhase = "first_closed_coil"
    /\ sampled.currentPhase = "body_coils"
    /\ RLt(Zero, prevSampled.pitch)
    /\ RLt(prevSampled.pitch, sampled.pitch)


----------------------------------------------------------------------------
(* The two keyframe interpolators called directly on a keyframe sequence    *)

(* the longest keyframe sequence and the latest keyframe time *)
MaxKeyframes == 3
MaxKeyTime == 2

PositionInputs == { R(0), R(5), R(10) }

KeyframeSet ==
    { Keyframe(R(i), position) : i \in 0..MaxKeyTime, position \in PositionInputs }

(* keyframe sequences with weakly increasing times, the empty one included *)
KeyframeInputs ==
    UNION { { seq \in [1..len -> KeyframeSet] :
                \A k \in 1..(len - 1) : RLe(seq[k].time, seq[k + 1].time) } :
            len \in 0..MaxKeyframes }

(* before, at, between and after the keyframe times *)
KfTimeInputs ==
    { R(-1), R(MaxKeyTime + 1) }
    \cup { R(i) : i \in 0..MaxKeyTime }
    \cup { Rat(2 * i + 1, 2) : i \in 0..(MaxKeyTime - 1) }

JawProfile(keyframes) == [axisId |-> "jaw", keyframes |-> keyframes]

KfInit ==
    /\ StoreInit
    /\ GenIdle
    /\ UtilIdle
    /\ SpringInit
    /\ SimInit
    /\ kfs \in KeyframeInputs
    /\ kfTime = Null
    /\ kfOut = Null
    /\ jawOut = Null

Interpolate ==
    /\ \E t \in KfTimeInputs :
          /\ kfTime' = t
          /\ kfOut' = interpolate(kfs, t)
    /\ jawOut' = Null
    /\ UNCHANGED << kfs, storeVars, lastOp, pre, genVars, utilVars, springVars, simVars >>

SampleAxisPosition ==
    /\ \E t \in KfTimeInputs :
          /\ kfTime' = t
          /\ jawOut' = sampleAxisPosition(JawProfile(kfs), t)
    /\ kfOut' = Null
    /\ UNCHANGED << kfs, storeVars, lastOp, pre, genVars, utilVars, springVars, simVars >>

KfNext ==
    \/ Interpolate
    \/ SampleAxisPosition

KfSpec == KfInit /\ [][KfNext]_vars

----------------------------------------------------------------------------
(* Properties of the keyframe interpolators *)

(* the keyframes at the time asked for *)
Knots == { k \in 1..Len(kfs) : kfTime # Null /\ kfs[k].time = kfTime }

LastKnot == CHOOSE k \in Knots : \A j \in Knots : j <= k

(* what either interpolator returned *)
KnotOut == IF kfOut # Null THEN kfOut ELSE jawOut

(* C19 as stated: interpolating at the time of a keyframe returns the       *)
(* position of that keyframe, for every keyframe of a non-empty weakly      *)
(* increasing sequence, keyframes that share their time included.           *)
C19_ExactAtEveryKnot ==
    (kfTime # Null /\ Len(kfs) > 0) =>
        \A k \in Knots : KnotOut = kfs[k].position

(* C19 amended: interpolating at the time of a keyframe returns that        *)
(* keyframe's position when every keyframe at that time has the same        *)
(* position; in general it returns the position of the first keyframe of    *)
(* the sequence when the time is the first keyframe's, and otherwise of the *)
(* last keyframe at that time.                                              *)
C19_KnotValue ==
    (kfTime # Null /\ Len(kfs) > 0 /\ Knots # {}) =>
        /\ KnotOut = IF kfTime = kfs[1].time THEN kfs[1].position
                     ELSE kfs[LastKnot].position
        /\ (\A j, k \in Knots : kfs[j].position = kfs[k].position) =>
              \A k \in Knots : KnotOut = kfs[k].position

(* two keyframes at one time, later than the first keyframe, with different *)
(* positions: the later one's position is returned                          *)
C19_Witness ==
    /\ kfOut # Null
    /\ Len(kfs) = 3
    /\ RLt(kfs[1].time, kfs[2].time)
    /\ kfs[2].time = kfs[3].time
    /\ kfs[2].position # kfs[3].position
    /\ kfTime = kfs[2].time
    /\ kfOut = kfs[3].position

----------------------------------------------------------------------------
(* The samplers and the other pure utilities called directly, on inputs the *)
(* generator does not produce as well: a process that lacks an axis         *)
(* profile, a jaw recipe that lacks a jaw.                                  *)

(* the caller makes one call *)
UtilFrame ==
    /\ call = Null
    /\ UNCHANGED << storeVars, lastOp, pre, genVars, kfVars, springVars, simVars >>

AxisIds == { "feed", "coiling", "pitch", "cut", "additional" }

RECURSIVE DropAxis(_, _, _)
DropAxis(axes, id, i) ==
    IF i > Len(axes) THEN << >>
    ELSE (IF axes[i].axisId = id THEN << >> ELSE << axes[i] >>)
         \o DropAxis(axes, id, i + 1)

(* the process without the profile of one axis *)
WithoutAxis(proc, id) == [proc EXCEPT !.axes = DropAxis(proc.axes, id, 1)]

(* the process with an empty keyframe sequence for one axis *)
WithEmptyAxis(proc, id) ==
    [proc EXCEPT !.axes =
        [a \in 1..Len(proc.axes) |->
            IF proc.axes[a].axisId = id
              THEN AxisProfile(id, << >>)
              ELSE proc.axes[a]]]

UtilProcessInputs ==
    { generateCompressionSpringProcess(Params(2, 7, 2, 4, 4, 22)),
      generateCompressionSpringProcess(Params(2, 7, 2, 2, 4, 220)) }

UtilTimeInputs == { R(-1), R(0), Rat(1, 2), R(2), R(9), R(11) }

(* a jaw recipe with the FEED and J1 profiles of the sample recipe, an      *)
(* empty J4 profile and no profile for the other jaws                       *)
JawRecipe ==
    [ id |-> "sample-compression-001",
      jawProfiles |->
        << [axisId |-> "FEED",
            keyframes |-> << Keyframe(R(0), R(0)), Keyframe(Rat(1, 2), R(0)),
                             Keyframe(R(2), R(15)), Keyframe(R(7), R(95)),
                             Keyframe(Rat(17, 2), R(110)), Keyframe(R(9), R(110)),
                             Keyframe(R(10), R(110)) >>],
           [axisId |-> "J1",
            keyframes |-> << Keyframe(R(0), R(0)), Keyframe(Rat(3, 10), R(8)),
                             Keyframe(Rat(1, 2), R(10)), Keyframe(Rat(17, 2), R(10)),
                             Keyframe(R(9), R(5)), Keyframe(Rat(19, 2), R(0)),
                             Keyframe(R(10), R(0)) >>],
           [axisId |-> "J4", keyframes |-> << >>] >> ]

JawRecipeInputs == { Null, JawRecipe }

JawIdInputs == { "FEED", "J1", "J4", "J5" }

(* interpolateAxisPositions on a process that lacks the profile or the      *)
(* keyframes of one axis                                                    *)
SampleIncomplete ==
    /\ \E proc \in UtilProcessInputs, id \in AxisIds,
          how \in { "missing", "empty" }, time \in UtilTimeInputs :
          LET given == IF how = "missing" THEN WithoutAxis(proc, id)
                       ELSE WithEmptyAxis(proc, id)
          IN  /\ call' = [ fn |-> "interpolateAxisPositions", process |-> given,
                           time |-> time, whole |-> proc, axisId |-> id, how |-> how ]
              /\ result' = interpolateAxisPositions(given, time)
    /\ UtilFrame

SampleJawAtTime ==
    /\ \E recipe \in JawRecipeInputs, jawId \in JawIdInputs, time \in UtilTimeInputs :
          /\ call' = [ fn |-> "sampleJawAtTime", recipe |-> recipe,
                       jawId |-> jawId, time |-> time ]
          /\ result' = sampleJawAtTime(recipe, jawId, time)
    /\ UtilFrame

(* Number(x.toFixed(digits)): x rounded to that many decimals, a half       *)
(* rounded away from zero                                                   *)
ToFixed(x, digits) ==
    LET scale  == 10 ^ digits
        scaled == RMul(IF x.n < 0 THEN RSub(Zero, x) ELSE x, R(scale))
        units  == MathFloor(RAdd(scaled, Rat(1, 2))).n
    IN  Rat(IF x.n < 0 THEN -units ELSE units, scale)

TimelineRow(proc, t) ==
    LET pos == interpolateAxisPositions(proc, t)
    IN  [ time  |-> ToFixed(t, 2),
          phase |-> pos.currentPhase,
          feed  |-> ToFixed(pos.feed, 1),
          pitch |-> ToFixed(pos.pitch, 1),
          cut   |-> ToFixed(pos.cut, 1),
          coils |-> ToFixed(pos.currentCoils, 2) ]

(* a table that stops one step before the end of the cycle *)
processToTimelineTable_open(proc, stepCount) ==
    LET dt == RDiv(proc.totalCycleTime, R(stepCount))
    IN  [ row \in 1..stepCount |-> TimelineRow(proc, RMul(R(row - 1), dt)) ]

(* utils/processGenerator: processToTimelineTable; row i + 1 is the row the *)
(* loop pushes for i                                                        *)
processToTimelineTable(proc, stepCount) ==
    LET dt == RDiv(proc.totalCycleTime, R(stepCount))
    IN  [ row \in 1..(stepCount + 1) |-> TimelineRow(proc, RMul(R(row - 1), dt)) ]

StepCountInputs == { 1, 4, 5, 20 }

ProcessToTimelineTable ==
    /\ \E proc \in UtilProcessInputs, stepCount \in StepCountInputs :
          /\ call' = [ fn |-> "processToTimelineTable", process |-> proc,
                       stepCount |-> stepCount ]
          /\ result' = processToTimelineTable(proc, stepCount)
    /\ UtilFrame

(* utils/springCalculations: calculateMachineParameters *)
targetCycleSec == R(3)

calculateMachineParameters(params, machine) ==
    LET pitch      == params.pitch
        totalCoils == params.totalCoils
        totalAxialTravelMm == RMul(pitch, totalCoils)
    IN  [ feedSpeedMmPerSec |->
              MathMin(machine.maxFeedSpeed, RDiv(totalAxialTravelMm, targetCycleSec)),
          coilingRpm |->
              MathMin(machine.maxCoilingRpm,
                      RMul(RDiv(totalCoils, targetCycleSec), R(60))),
          pitchStrokeMm |-> MathMin(machine.maxPitchStroke, pitch),
          bendAngleDeg |-> MathMin(machine.maxBendAngle, R(90)) ]

(* the test's demoMachine, a small machine every estimate exceeds, and a    *)
(* machine with a bend limit above 90 degrees only                          *)
MachineInputs ==
    { [ maxFeedSpeed |-> R(2000), maxCoilingRpm |-> R(1200),
        maxPitchStroke |-> R(50), maxBendAngle |-> R(180) ],
      [ maxFeedSpeed |-> R(1), maxCoilingRpm |-> R(10),
        maxPitchStroke |-> R(2), maxBendAngle |-> R(45) ],
      [ maxFeedSpeed |-> R(0), maxCoilingRpm |-> R(0),
        maxPitchStroke |-> R(0), maxBendAngle |-> R(90) ] }

(* spring parameters as the parameter store holds them *)
SpringParamInputs ==
    { [defaultParams EXCEPT !.pitch = pitch, !.totalCoils = totalCoils] :
        pitch \in { R(-1), R(4), R(60) },
        totalCoils \in { Rat(1, 2), R(1), R(3), R(1000) } }

CalculateMachineParameters ==
    /\ \E params \in SpringParamInputs, machine \in MachineInputs :
          /\ call' = [ fn |-> "calculateMachineParameters", params |-> params,
                       machine |-> machine ]
          /\ result' = calculateMachineParameters(params, machine)
    /\ UtilFrame

(* utils/springCalculations: generateSpringPath *)
stepsPerTurn == R(32)

(* radius * cos(angle) and radius * sin(angle): exact at angle 0, and a     *)
(* term in the radius and the angle elsewhere                               *)
TimesCos(radiusMm, angle) ==
    IF angle = Zero THEN radiusMm ELSE [times |-> radiusMm, cos |-> angle]

TimesSin(radiusMm, angle) ==
    IF angle = Zero THEN Zero ELSE [times |-> radiusMm, sin |-> angle]

(* variablePitch.find(s => currentTurn >= s.startTurn && currentTurn <=     *)
(* s.endTurn)?.pitch, or the given pitch                                    *)
RECURSIVE FindSegmentPitch(_, _, _, _)
FindSegmentPitch(variablePitch, currentTurn, i, pitchMm) ==
    IF i > Len(variablePitch) THEN pitchMm
    ELSE IF /\ RGe(currentTurn, variablePitch[i].startTurn)
            /\ RLe(currentTurn, variablePitch[i].endTurn)
         THEN variablePitch[i].pitch
    ELSE FindSegmentPitch(variablePitch, currentTurn, i + 1, pitchMm)

(* a path whose progress is not clamped *)
generateSpringPath_noClamp(params, progress) ==
    LET turns      == RMul(params.totalCoils, progress)
        totalSteps == MathMax(R(4), MathRound(RMul(turns, stepsPerTurn))).n
    IN  [ k \in 1..(totalSteps + 1) |->
            [ x |-> RDiv(params.meanDiameter, R(2)), y |-> Zero, z |-> Zero,
              angle |-> Zero ] ]

generateSpringPath(params, progress) ==
    LET clamped    == MathMin(MathMax(progress, Zero), R(1))
        turns      == RMul(params.totalCoils, clamped)
        totalSteps == MathMax(R(4), MathRound(RMul(turns, stepsPerTurn))).n
        Point(i) ==
            LET t == IF totalSteps = 0 THEN Zero ELSE Rat(i, totalSteps)
                currentTurn == RMul(turns, t)
                pitchMm == FindSegmentPitch(params.variablePitch, currentTurn, 1,
                                            params.pitch)
                conical == params.conicalGeometry
                startR == RDiv(IF conical.fromSmallToLarge
                                 THEN conical.smallOuterDiameter
                                 ELSE conical.largeOuterDiameter, R(2))
                endR   == RDiv(IF conical.fromSmallToLarge
                                 THEN conical.largeOuterDiameter
                                 ELSE conical.smallOuterDiameter, R(2))
                radiusMm ==
                    IF conical = Null
                      THEN RDiv(params.meanDiameter, R(2))
                      ELSE RAdd(startR,
                                RMul(RSub(endR, startR),
                                     RDiv(currentTurn, MathMax(turns, R(1)))))
                angle == RMul(RMul(currentTurn, R(2)), MathPI)
            IN  [ x |-> TimesCos(radiusMm, angle),
                  y |-> RMul(currentTurn, pitchMm),
                  z |-> TimesSin(radiusMm, angle),
                  angle |-> angle ]
    IN  [ k \in 1..(totalSteps + 1) |-> Point(k - 1) ]

(* store/springStore.ts: the geometry updateParam fills in for the conical  *)
(* and the variable-pitch spring types                                      *)
defaultConicalGeometry ==
    [ smallOuterDiameter |-> R(10), largeOuterDiameter |-> R(20),
      fromSmallToLarge |-> TRUE ]

defaultVariablePitch ==
    << [startTurn |-> R(0), endTurn |-> R(2), pitch |-> R(3)],
       [startTurn |-> R(2), endTurn |-> R(5), pitch |-> R(6)],
       [startTurn |-> R(5), endTurn |-> R(8), pitch |-> R(4)] >>

PathParamInputs ==
    { [defaultParams EXCEPT !.totalCoils = totalCoils,
                            !.conicalGeometry = conical,
                            !.variablePitch = segments] :
        totalCoils \in { Rat(1, 2), R(1), R(3) },
        conical \in { Null, defaultConicalGeometry },
        segments \in { << >>, defaultVariablePitch } }

ProgressInputs == { Rat(-1, 2), R(0), Rat(1, 10), Rat(1, 2), R(1), R(2) }

GenerateSpringPath ==
    /\ \E params \in PathParamInputs, progress \in ProgressInputs :
          /\ call' = [ fn |-> "generateSpringPath", params |-> params,
                       progress |-> progress ]
          /\ result' = generateSpringPath(params, progress)
    /\ UtilFrame

UtilInit ==
    /\ StoreInit
    /\ GenIdle
    /\ KfIdle
    /\ UtilIdle
    /\ SpringInit
    /\ SimInit

UtilNext ==
    \/ SampleIncomplete
    \/ SampleJawAtTime
    \/ ProcessToTimelineTable
    \/ CalculateMachineParameters
    \/ GenerateSpringPath

UtilSpec == UtilInit /\ [][UtilNext]_vars

----------------------------------------------------------------------------
(* Properties of the utilities *)

CallIs(fn) == call # Null /\ call.fn = fn

(* the jaw profiles of the recipe of the call that have the jaw id asked for *)
JawProfilesFound ==
    IF call.recipe = Null THEN {}
    ELSE { i \in 1..Len(call.recipe.jawProfiles) :
             call.recipe.jawProfiles[i].axisId = call.jawId }

(* C21: sampling a process that has no profile, or an empty keyframe        *)
(* sequence, for one axis gives position 0 for that axis and the usual      *)
(* positions of the other axes and the usual currentPhase; sampling a jaw   *)
(* that the recipe has no profile for, or an empty one, or sampling without *)
(* a recipe, gives 0.                                                       *)
C21_MissingAxisIsZero ==
    /\ CallIs("interpolateAxisPositions") =>
          LET usual == interpolateAxisPositions(call.whole, call.time)
          IN  /\ result[call.axisId] = Zero
              /\ \A id \in AxisIds \ {call.axisId} : result[id] = usual[id]
              /\ result.currentPhase = usual.currentPhase
              /\ result.currentCoils =
                    RDiv(result.feed, call.whole.springGeometry.wirePerCoil)
    /\ CallIs("sampleJawAtTime") =>
          ((\A i \in JawProfilesFound : call.recipe.jawProfiles[i].keyframes = << >>)
              => result = Zero)

(* the cut profile is missing while the wire is being fed; a jaw without    *)
(* a profile is asked for in a recipe that has other profiles               *)
C21_Witness ==
    /\ CallIs("interpolateAxisPositions")
    /\ call.how = "missing"
    /\ call.axisId = "cut"
    /\ result.cut = Zero
    /\ RGt(result.feed, Zero)
    /\ RGt(result.additional, Zero)

(* C22 as stated: the table of processToTimelineTable(process, N) has N     *)
(* rows, the first at time 0 and the last at totalCycleTime.                *)
C22_TableHasNRows ==
    CallIs("processToTimelineTable") =>
        /\ Len(result) = call.stepCount
        /\ result[1].time = Zero
        /\ result[Len(result)].time = ToFixed(call.process.totalCycleTime, 2)

(* C22 amended: the table has N + 1 rows; row i (from 0 to N) is sampled at *)
(* i * totalCycleTime / N, so the first is at 0 and the last at             *)
(* totalCycleTime; a row holds the sampler's phase for its time, the time   *)
(* and the coil count rounded to 2 decimals and the feed, pitch and cut     *)
(* positions rounded to 1 decimal.                                          *)
C22_TableHasNPlusOneRows ==
    CallIs("processToTimelineTable") =>
        LET total == call.process.totalCycleTime
            Near(rounded, exact, digits) ==
                /\ RMul(rounded, R(10 ^ digits)).d = 1
                /\ RLe(RSub(rounded, exact), Rat(1, 2 * 10 ^ digits))
                /\ RLe(RSub(exact, rounded), Rat(1, 2 * 10 ^ digits))
        IN  /\ Len(result) = call.stepCount + 1
            /\ result[1].time = Zero
            /\ result[1].phase = "idle"
            /\ result[Len(result)].phase = "reset"
            /\ \A row \in 1..Len(result) :
                  LET t   == RDiv(RMul(R(row - 1), total), R(call.stepCount))
                      pos == interpolateAxisPositions(call.process, t)
                  IN  /\ Near(result[row].time, t, 2)
                      /\ result[row].phase = pos.currentPhase
                      /\ Near(result[row].feed, pos.feed, 1)
                      /\ Near(result[row].pitch, pos.pitch, 1)
                      /\ Near(result[row].cut, pos.cut, 1)
                      /\ Near(result[row].coils, pos.currentCoils, 2)

(* a table of 4 steps over a cycle of 4.7 s: five rows, the second at      *)
(* 1.175 s shown as 1.18, the last in phase reset with all wire fed         *)
C22_Witness ==
    /\ CallIs("processToTimelineTable")
    /\ call.stepCount = 4
    /\ Len(result) = 5
    /\ result[2].time = Rat(118, 100)
    /\ result[5].phase = "reset"
    /\ result[5].time = call.process.totalCycleTime
    /\ RGt(result[5].feed, Zero)

(* C24: calculateMachineParameters returns no value above the machine's     *)
(* limit for it: feed speed, coiling rpm, pitch stroke, bend angle.         *)
C24_WithinMachineLimits ==
    CallIs("calculateMachineParameters") =>
        /\ RLe(result.feedSpeedMmPerSec, call.machine.maxFeedSpeed)
        /\ RLe(result.coilingRpm, call.machine.maxCoilingRpm)
        /\ RLe(result.pitchStrokeMm, call.machine.maxPitchStroke)
        /\ RLe(result.bendAngleDeg, call.machine.maxBendAngle)

(* a spring whose estimates all exceed the limits: the limits are returned *)
C24_Witness ==
    /\ CallIs("calculateMachineParameters")
    /\ RGt(RDiv(RMul(call.params.pitch, call.params.totalCoils), R(3)),
           call.machine.maxFeedSpeed)
    /\ result.feedSpeedMmPerSec = call.machine.maxFeedSpeed
    /\ result.coilingRpm = call.machine.maxCoilingRpm
    /\ result.pitchStrokeMm = call.machine.maxPitchStroke
    /\ result.bendAngleDeg = call.machine.maxBendAngle
    /\ RGt(call.machine.maxFeedSpeed, Zero)

(* max(4, round(totalCoils * progress * 32)) + 1 for the progress clamped   *)
(* to [0, 1], by integer arithmetic                                         *)
PathPointCount(params, progress) ==
    LET clamped == IF RLt(progress, Zero) THEN Zero
                   ELSE IF RGt(progress, R(1)) THEN R(1) ELSE progress
        steps   == RMul(RMul(params.totalCoils, clamped), R(32))
        rounded == (2 * steps.n + steps.d) \div (2 * steps.d)
    IN  (IF rounded < 4 THEN 4 ELSE rounded) + 1

(* C25: the path has max(4, round(totalCoils * progress * 32)) + 1 points   *)
(* for the clamped progress; a larger progress never gives fewer points,    *)
(* progress 1 gives more than progress 0.5 when totalCoils >= 1, and the    *)
(* first point does not depend on the progress.                             *)
C25_PathRespectsProgress ==
    CallIs("generateSpringPath") =>
        /\ Len(result) = PathPointCount(call.params, call.progress)
        /\ \A later \in ProgressInputs :
              RLe(call.progress, later) =>
                  Len(result) <= Len(generateSpringPath(call.params, later))
        /\ (call.progress = R(1) /\ RGe(call.params.totalCoils, R(1))) =>
              Len(result) > Len(generateSpringPath(call.params, Rat(1, 2)))
        /\ \A other \in ProgressInputs :
              generateSpringPath(call.params, other)[1] = result[1]

(* the full path of a conical spring of three coils: 97 points *)
C25_Witness ==
    /\ CallIs("generateSpringPath")
    /\ call.progress = R(1)
    /\ call.params.totalCoils = R(3)
    /\ call.params.conicalGeometry # Null
    /\ Len(result) = 97
    /\ result[1].x = R(5)

----------------------------------------------------------------------------
(* store/springStore.ts: useSpringStore.updateParam, with numbers for the   *)
(* numeric parameters as the parameter panels pass them                     *)

(* the derived fields and the defaults updateParam fills in after the coil  *)
(* counts are settled                                                       *)
UpdateDerived(newParams, key, value) ==
    LET sized ==
            IF key \in { "meanDiameter", "wireDiameter" }
              THEN [newParams EXCEPT
                      !.outerDiameter = RAdd(newParams.meanDiameter, newParams.wireDiameter),
                      !.innerDiameter = RSub(newParams.meanDiameter, newParams.wireDiameter)]
              ELSE newParams
    IN  IF key = "type" /\ value = "conical" /\ sized.conicalGeometry = Null
          THEN [sized EXCEPT !.conicalGeometry = defaultConicalGeometry]
        ELSE IF key = "type" /\ value = "variablePitch" /\ Len(sized.variablePitch) = 0
          THEN [sized EXCEPT !.variablePitch = defaultVariablePitch]
        ELSE sized

(* an update that does not lower activeCoils when totalCoils is set *)
updateParam_keepActive(key, value) ==
    /\ springParams' =
          UpdateDerived(
            IF key = "activeCoils"
              THEN [springParams EXCEPT
                      !.activeCoils = MathMin(value, springParams.totalCoils)]
              ELSE [springParams EXCEPT ![key] = value],
            key, value)
    /\ springOp' = [key |-> key, value |-> value, before |-> springParams]
    /\ UNCHANGED << storeVars, lastOp, pre, genVars, kfVars, utilVars, simVars >>

updateParam(key, value) ==
    /\ springParams' =
          LET newParams == [springParams EXCEPT ![key] = value]
              active ==
                  IF key = "activeCoils"
                    THEN [newParams EXCEPT
                            !.activeCoils = MathMin(value, newParams.totalCoils)]
                    ELSE newParams
              total ==
                  IF key = "totalCoils"
                    THEN [active EXCEPT
                            !.activeCoils = MathMin(active.activeCoils, value)]
                    ELSE active
          IN  UpdateDerived(total, key, value)
    /\ springOp' = [key |-> key, value |-> value, before |-> springParams]
    /\ UNCHANGED << storeVars, lastOp, pre, genVars, kfVars, utilVars, simVars >>

(* components/ProcessControl/PlaybackControls: the generator input built    *)
(* from the store's params                                                  *)
processParams ==
    [ wireDiameter |-> springParams.wireDiameter,
      meanDiameter |-> springParams.meanDiameter,
      activeCoils |-> springParams.activeCoils,
      totalCoils |-> springParams.totalCoils,
      pitch |-> springParams.pitch,
      endType |-> "closed",
      feedSpeed |-> R(50) ]

CoilInputs == { R(-1), Rat(5, 2), R(6), R(10) }

UpdateCoils ==
    \E key \in { "activeCoils", "totalCoils" }, value \in CoilInputs :
        updateParam(key, value)

UpdateDiameter ==
    \E key \in { "meanDiameter", "wireDiameter" }, value \in { R(3) } :
        updateParam(key, value)

UpdateType ==
    \E value \in { "conical", "variablePitch" } :
        updateParam("type", value)

SpringNext ==
    \/ UpdateCoils
    \/ UpdateDiameter
    \/ UpdateType

SpringSpec == Init /\ [][SpringNext]_vars

(* C23: after any sequence of updateParam calls from the default params,    *)
(* activeCoils <= totalCoils in the store, and so in the input the playback *)
(* controls build for the process generator.                                *)
C23_ActiveWithinTotal ==
    /\ RLe(springParams.activeCoils, springParams.totalCoils)
    /\ RLe(processParams.activeCoils, processParams.totalCoils)

(* totalCoils set below activeCoils: activeCoils comes down with it *)
C23_Witness ==
    /\ springOp # Null
    /\ springOp.key = "totalCoils"
    /\ RLt(springOp.value, springOp.before.activeCoils)
    /\ springParams.activeCoils = springOp.value
    /\ springParams.totalCoils = springOp.value

(* C28: interpolation never divides by a zero time difference: for a weakly *)
(* increasing keyframe sequence, equal consecutive times included, and any  *)
(* t the result is a number, and it is a keyframe's position or the blend   *)
(* over an interval with k0.time <= t < k1.time, so k1.time > k0.time.      *)
C28_NoZeroTimeDifference ==
    (kfTime # Null /\ Len(kfs) > 0) =>
        /\ KnotOut # NaN
        /\ KnotOut.d > 0
        /\ \/ \E k \in 1..Len(kfs) : KnotOut = kfs[k].position
           \/ \E i \in 1..(Len(kfs) - 1) :
                 /\ RLe(kfs[i].time, kfTime)
                 /\ RLt(kfTime, kfs[i + 1].time)
                 /\ RGt(kfs[i + 1].time, kfs[i].time)
                 /\ RMul(RSub(KnotOut, kfs[i].position),
                         RSub(kfs[i + 1].time, kfs[i].time)) =
                    RMul(RSub(kfTime, kfs[i].time),
                         RSub(kfs[i + 1].position, kfs[i].position))

(* two keyframes at time 0 and a third at 1, sampled at one half: the blend *)
(* runs over the second and the third                                       *)
C28_Witness ==
    /\ kfOut # Null
    /\ Len(kfs) = 3
    /\ kfs[1].time = kfs[2].time
    /\ kfs[1].position # kfs[2].position
    /\ RLt(kfs[2].time, kfTime)
    /\ RLt(kfTime, kfs[3].time)
    /\ kfs[2].position # kfs[3].position
    /\ RAdd(kfOut, kfOut) = RAdd(kfs[2].position, kfs[3].position)

----------------------------------------------------------------------------
(* The simulation progress store (stores/simulationStore.ts): setPlaying,   *)
(* reset and tick, the last called by useSpringAnimation on every rendered  *)
(* frame with the seconds elapsed since the frame before.                   *)

DURATION_SEC == 4

SimCalled(name, arg) ==
    /\ simOp' = [name |-> name, arg |-> arg]
    /\ simPre' = [playing |-> playing, springProgress |-> springProgress]
    /\ UNCHANGED << storeVars, lastOp, pre, genVars, kfVars, utilVars, springVars >>

setPlaying(value) ==
    /\ playing' = value
    /\ UNCHANGED << springProgress, speedFactor >>
    /\ SimCalled("setPlaying", value)

simulationReset ==
    /\ springProgress' = Zero
    /\ playing' = FALSE
    /\ UNCHANGED speedFactor
    /\ SimCalled("reset", Null)

(* springProgress + (deltaSec * speedFactor) / DURATION_SEC *)
SimulationNext(deltaSec) ==
    RAdd(springProgress, RDiv(RMul(deltaSec, speedFactor), R(DURATION_SEC)))

simulationTick_loop(deltaSec) ==
    /\ IF ~playing
         THEN UNCHANGED << playing, springProgress, speedFactor >>
         ELSE LET next == IF RGe(SimulationNext(deltaSec), R(1))
                            THEN Zero
                            ELSE SimulationNext(deltaSec)
              IN  /\ springProgress' = next
                  /\ playing' = TRUE
                  /\ UNCHANGED speedFactor
    /\ SimCalled("tick", deltaSec)

simulationTick(deltaSec) ==
    /\ IF ~playing
         THEN UNCHANGED << playing, springProgress, speedFactor >>
         ELSE LET next == MathMin(R(1), SimulationNext(deltaSec))
              IN  /\ springProgress' = next
                  /\ playing' = RLt(next, R(1))
                  /\ UNCHANGED speedFactor
    /\ SimCalled("tick", deltaSec)

(* frame steps: none, an eighth, a quarter and a half of the duration, and  *)
(* more than the whole of it                                                *)
SimDeltaInputs == { Zero, Rat(1, 2), R(1), R(2), R(5) }

SetPlaying == \E value \in BOOLEAN : setPlaying(value)
SimulationReset == simulationReset
SimulationTick == \E deltaSec \in SimDeltaInputs : simulationTick(deltaSec)

SimNext ==
    \/ SetPlaying
    \/ SimulationReset
    \/ SimulationTick

SimSpec == Init /\ [][SimNext]_vars

(* C30: springProgress stays within [0, 1]; no operation but reset lowers   *)
(* it; after a tick playing is true only if springProgress < 1, so a tick   *)
(* that finds springProgress at 1 leaves it at 1 and stops playback instead *)
(* of looping; reset stores springProgress 0 and playing false; a tick      *)
(* while not playing changes nothing.                                       *)
C30_ProgressRunsOnceToOne ==
    /\ speedFactor = R(1)
    /\ RGe(springProgress, Zero)
    /\ RLe(springProgress, R(1))
    /\ simOp # Null =>
          /\ simOp.name # "reset" => RGe(springProgress, simPre.springProgress)
          /\ simOp.name = "reset" => springProgress = Zero /\ ~playing
          /\ simOp.name = "tick" =>
                /\ playing => RLt(springProgress, R(1))
                /\ simPre.springProgress = R(1) =>
                      springProgress = R(1) /\ ~playing
                /\ ~simPre.playing =>
                      /\ springProgress = simPre.springProgress
                      /\ ~playing

(* playback switched on again at the end: the next tick leaves              *)
(* springProgress at 1 and switches playback off                            *)
C30_Witness ==
    /\ simOp # Null
    /\ simOp.name = "tick"
    /\ RGt(simOp.arg, Zero)
    /\ simPre.playing
    /\ simPre.springProgress = R(1)
    /\ springProgress = R(1)
    /\ ~playing

====
